---- MODULE Spec2Model ----
(***************************************************************************)
(* Energy-aware sensor node simulator: the policies of                     *)
(* sensor_sim/policies.py, the energy model and configuration of           *)
(* sensor_sim/models.py and the simulation loop of sensor_sim/simulator.py *)
(*                                                                         *)
(* Units.  Signal values are integers in hundredths (20.0 is 2000), held   *)
(* as Optional values (None, Some(v)) wherever the source holds a float    *)
(* or None.  Time steps dt_s are counted in halves of a second (field dt2, *)
(* dt_s = dt2/2), which keeps round() and int() of the source exact.       *)
(* Action durations are counted in bit times (1/bitrate_bps s), powers in  *)
(* halves of a mW, so that every energy of the source is an exact integer. *)
(***************************************************************************)
EXTENDS Integers, Sequences, FiniteSets, TLC

\* ---------------------------------------------------------------- bounds
MaxDuration == 3
MaxEvery == 3
MaxSigma == 1
MaxRuns == 2
MaxCustomDuration == 2

\* ------------------------------------------------------- Optional values
None == <<>>
Some(v) == <<v>>
Val(o) == o[1]

Abs(x) == IF x < 0 THEN -x ELSE x
Max(a, b) == IF a >= b THEN a ELSE b

\* ------------------------------------------------------- models.py
power_sleep_mw == 1
power_idle_awake_mw == 30
power_cpu_mw == 70
power_sense_mw == 50
power_tx_mw == 240
t_sense_s == 2500
t_cpu_s == 1000
bitrate_bps == 250000
tx_overhead_s == 500

\* dt_s seconds, given in halves of a second, as a number of bit times
Seconds(dt2) == dt2 * (bitrate_bps \div 2)

e_sleep(dt2) == power_sleep_mw * Seconds(dt2)
e_idle_awake(dt2) == power_idle_awake_mw * Seconds(dt2)
e_sense == power_sense_mw * t_sense_s
e_cpu == power_cpu_mw * t_cpu_s
e_tx(payload_bytes) ==
    LET bits == payload_bytes * 8
        t_tx == tx_overhead_s + bits
    IN  power_tx_mw * t_tx

payload_bytes_default == 24
noise_std_default == 20
change_threshold_default == 50

NodeConfig(duration_s, dt2, payload_bytes, noise_std) ==
    [duration_s |-> duration_s, dt2 |-> dt2,
     payload_bytes |-> payload_bytes, noise_std |-> noise_std]

\* ------------------------------------------------------- policies.py
PolicyOutput(awake, take_sample, transmit) ==
    [awake |-> awake, take_sample |-> take_sample, transmit |-> transmit]

PolicyOutputs == [awake : BOOLEAN, take_sample : BOOLEAN, transmit : BOOLEAN]

FixedSamplingPolicy(sample_every_s) ==
    [kind |-> "fixed", sample_every_s |-> Max(1, sample_every_s)]

DutyCyclingPolicy(wake_every_s, awake_window_s, sample_every_s) ==
    [kind |-> "duty",
     wake_every_s |-> Max(1, wake_every_s),
     awake_window_s |-> Max(1, awake_window_s),
     sample_every_s |-> Max(1, sample_every_s)]

AdaptiveThresholdPolicy(base_every_s, threshold, max_silence_s) ==
    [kind |-> "adaptive",
     base_every_s |-> Max(1, base_every_s),
     threshold |-> threshold,
     max_silence_s |-> Max(1, max_silence_s)]

\* any other subclass of BasePolicy: its step may return any PolicyOutput
BasePolicy == [kind |-> "custom"]

\* FixedStep with the alignment taken one second late
FixedStepOffset(p, mem, t_s, last_measurement, last_tx_s) ==
    LET do == ((t_s + 1) % p.sample_every_s = 0)
    IN  [out |-> PolicyOutput(TRUE, do, do), mem |-> mem]

\* DutyStep with the sampling modulo taken on the time since waking
DutyStepSinceWake(p, mem, t_s, last_measurement, last_tx_s) ==
    LET phase == t_s % p.wake_every_s
        awake == (phase < p.awake_window_s)
        do == awake /\ (phase % p.sample_every_s = 0)
    IN  [out |-> PolicyOutput(awake, do, do), mem |-> mem]

\* DutyStep with sampling not restricted to the awake window
DutyStepUngated(p, mem, t_s, last_measurement, last_tx_s) ==
    LET phase == t_s % p.wake_every_s
        awake == (phase < p.awake_window_s)
        do == (t_s % p.sample_every_s = 0)
    IN  [out |-> PolicyOutput(awake, do, do), mem |-> mem]

\* AdaptiveStep with the keep-alive firing only after more than max_silence_s
AdaptiveStepStrictSilence(p, mem, t_s, last_measurement, last_tx_s) ==
    LET take_sample == (t_s % p.base_every_s = 0)
        decide == take_sample /\ last_measurement # None
        tx1 == IF mem = None
               THEN TRUE
               ELSE Abs(Val(last_measurement) - Val(mem)) >= p.threshold
        tx2 == IF ~tx1 /\ last_tx_s # None
               THEN (t_s - Val(last_tx_s)) > p.max_silence_s
               ELSE tx1
        transmit == decide /\ tx2
    IN  [out |-> PolicyOutput(TRUE, take_sample, transmit),
         mem |-> IF transmit THEN last_measurement ELSE mem]

\* FixedStep transmitting at every tick
FixedStepAlwaysTransmit(p, mem, t_s, last_measurement, last_tx_s) ==
    LET do == (t_s % p.sample_every_s = 0)
    IN  [out |-> PolicyOutput(TRUE, do, TRUE), mem |-> mem]

\* AdaptiveStep deciding about transmit at every tick, sampling or not
AdaptiveStepAnyTick(p, mem, t_s, last_measurement, last_tx_s) ==
    LET take_sample == (t_s % p.base_every_s = 0)
        decide == last_measurement # None
        tx1 == IF mem = None
               THEN TRUE
               ELSE Abs(Val(last_measurement) - Val(mem)) >= p.threshold
        tx2 == IF ~tx1 /\ last_tx_s # None
               THEN (t_s - Val(last_tx_s)) >= p.max_silence_s
               ELSE tx1
        transmit == decide /\ tx2
    IN  [out |-> PolicyOutput(TRUE, take_sample, transmit),
         mem |-> IF transmit THEN last_measurement ELSE mem]

\* AdaptiveStep without the keep-alive rule
AdaptiveStepNoKeepAlive(p, mem, t_s, last_measurement, last_tx_s) ==
    LET take_sample == (t_s % p.base_every_s = 0)
        decide == take_sample /\ last_measurement # None
        tx1 == IF mem = None
               THEN TRUE
               ELSE Abs(Val(last_measurement) - Val(mem)) >= p.threshold
        transmit == decide /\ tx1
    IN  [out |-> PolicyOutput(TRUE, take_sample, transmit),
         mem |-> IF transmit THEN last_measurement ELSE mem]

\* Each step yields the PolicyOutput and the policy's memory after the call.
FixedStep(p, mem, t_s, last_measurement, last_tx_s) ==
    LET do == (t_s % p.sample_every_s = 0)
    IN  [out |-> PolicyOutput(TRUE, do, do), mem |-> mem]

DutyStep(p, mem, t_s, last_measurement, last_tx_s) ==
    LET phase == t_s % p.wake_every_s
        awake == (phase < p.awake_window_s)
        do == awake /\ (t_s % p.sample_every_s = 0)
    IN  [out |-> PolicyOutput(awake, do, do), mem |-> mem]

AdaptiveStep(p, mem, t_s, last_measurement, last_tx_s) ==
    LET take_sample == (t_s % p.base_every_s = 0)
        decide == take_sample /\ last_measurement # None
        tx1 == IF mem = None
               THEN TRUE
               ELSE Abs(Val(last_measurement) - Val(mem)) >= p.threshold
        tx2 == IF ~tx1 /\ last_tx_s # None
               THEN (t_s - Val(last_tx_s)) >= p.max_silence_s
               ELSE tx1
        transmit == decide /\ tx2
    IN  [out |-> PolicyOutput(TRUE, take_sample, transmit),
         mem |-> IF transmit THEN last_measurement ELSE mem]

\* a reset that leaves the memory of the last run in place
ResetKeeps(p, m) == m

\* policy.reset(): only AdaptiveThresholdPolicy keeps memory
Reset(p, mem) == IF p.kind = "adaptive" THEN None ELSE mem

\* the results policy.step can give (one, but for an arbitrary BasePolicy)
Step(p, mem, t_s, last_measurement, last_tx_s) ==
    CASE p.kind = "fixed" -> {FixedStep(p, mem, t_s, last_measurement, last_tx_s)}
      [] p.kind = "duty" -> {DutyStep(p, mem, t_s, last_measurement, last_tx_s)}
      [] p.kind = "adaptive" -> {AdaptiveStep(p, mem, t_s, last_measurement, last_tx_s)}
      [] OTHER -> {[out |-> o, mem |-> mem] : o \in PolicyOutputs}

\* ------------------------------------------------------- simulator.py
\* ground_truth for the default signal (base 20.0, amplitude 3.0, period
\* 120 s), in hundredths, for t_s = -4 .. 31
SignalTable ==
    << 1936, 1952, 1968, 1984, 2000, 2016, 2032, 2048, 2064, 2080, 2095, 2111,
       2125, 2140, 2154, 2168, 2181, 2194, 2207, 2219, 2230, 2240, 2250, 2260,
       2268, 2276, 2283, 2290, 2295, 2300, 2304, 2308, 2310, 2312, 2312, 2312 >>

ground_truth(t_s) == SignalTable[t_s + 5]

\* int(x / y) of Python for y # 0: the quotient truncated toward zero
IntOfQuotient(x, y) ==
    IF (x >= 0) = (y > 0)
    THEN Abs(x) \div Abs(y)
    ELSE -(Abs(x) \div Abs(y))

\* int(round(n2 / 2)) of Python: halves round to the even neighbour
RoundHalves(n2) ==
    LET k == n2 \div 2
    IN  IF n2 % 2 = 0 THEN k
        ELSE IF k % 2 = 0 THEN k ELSE k + 1

\* the values random.gauss(0.0, noise_std) is taken to give
GaussDraws(noise_std) == {-MaxSigma * noise_std, MaxSigma * noise_std}

RECURSIVE AbsErrSum(_, _)
AbsErrSum(tr, rc) ==
    IF tr = <<>> \/ rc = <<>> THEN 0
    ELSE Abs(Head(tr) - Val(Head(rc))) + AbsErrSum(Tail(tr), Tail(rc))

VARIABLES
    policy, mem, cfg, calls, runs,
    pc, steps, i, rng_stream, rng_pos,
    t, truth, measured, sent, reconstructed,
    e_sleep_acc, e_idle, e_sense_acc, e_cpu_acc, e_tx_acc,
    last_measurement, last_tx_value, last_tx_s,
    samples_taken, packets_sent, recon_val, out, results,
    step_log

vars == << policy, mem, cfg, calls, runs,
           pc, steps, i, rng_stream, rng_pos,
           t, truth, measured, sent, reconstructed,
           e_sleep_acc, e_idle, e_sense_acc, e_cpu_acc, e_tx_acc,
           last_measurement, last_tx_value, last_tx_s,
           samples_taken, packets_sent, recon_val, out, results,
           step_log >>

\* ------------------------------------------------------- the callers
Thresholds == {change_threshold_default, 100000}
TimeSteps == {1, 2, 3}

BuiltinPolicies ==
    {FixedSamplingPolicy(n) : n \in 0..MaxEvery}
    \cup {DutyCyclingPolicy(w, a, n) : w \in 0..MaxEvery, a \in 1..MaxEvery, n \in 1..MaxEvery}
    \cup {AdaptiveThresholdPolicy(b, th, ms) :
            b \in 0..MaxEvery, th \in Thresholds, ms \in 1..MaxEvery}

\* NodeConfig validates nothing: a caller can pass the second set too
Configs ==
    {NodeConfig(d, dt2, payload_bytes_default, noise_std_default) :
        d \in 1..MaxDuration, dt2 \in TimeSteps}
    \cup {NodeConfig(d, dt2, pb, noise_std_default) :
            d \in -1..1, dt2 \in {-2, 0, 2}, pb \in {0, payload_bytes_default}}

Call(p, c, n) == [policy |-> p, cfg |-> c, calls |-> n]

\* what a caller does: a policy, a configuration, and how many times it
\* runs simulate on them
Scenarios ==
    {Call(p, c, MaxRuns) : p \in BuiltinPolicies, c \in Configs}
    \cup {Call(BasePolicy, NodeConfig(d, 2, payload_bytes_default, noise_std_default), 1) :
            d \in 0..MaxCustomDuration}
    \cup {Call(AdaptiveThresholdPolicy(2, 100000, 10),
               NodeConfig(30, 2, payload_bytes_default, noise_std_default), 1),
          Call(FixedSamplingPolicy(5),
               NodeConfig(20, 2, payload_bytes_default, noise_std_default), 1),
          Call(DutyCyclingPolicy(10, 2, 5),
               NodeConfig(20, 2, payload_bytes_default, noise_std_default), 1)}

\* ------------------------------------------------------- simulate
Init ==
    /\ \E s \in Scenarios :
         /\ policy = s.policy /\ cfg = s.cfg /\ calls = s.calls
    /\ mem = None
    /\ runs = 0
    /\ pc = "idle"
    /\ steps = 0
    /\ rng_stream = <<>> /\ rng_pos = 0
    /\ results = <<>>
    /\ t = <<>> /\ truth = <<>> /\ measured = <<>>
    /\ sent = <<>> /\ reconstructed = <<>>
    /\ e_sleep_acc = 0 /\ e_idle = 0 /\ e_sense_acc = 0
    /\ e_cpu_acc = 0 /\ e_tx_acc = 0
    /\ last_measurement = None /\ last_tx_value = None /\ last_tx_s = None
    /\ samples_taken = 0 /\ packets_sent = 0
    /\ recon_val = Some(ground_truth(0))
    /\ out = None /\ i = 0
    /\ step_log = <<>>

\* steps = int(cfg.duration_s / cfg.dt_s)
StepCount(c) == IntOfQuotient(2 * c.duration_s, c.dt2)

\* now_s = int(round(i * cfg.dt_s))
TickTime(k, c) == RoundHalves(k * c.dt2)

\* the sampling condition without the awake gate
SamplesUngated(o) == o.take_sample

\* if out.awake and out.take_sample
Samples(o) == o.awake /\ o.take_sample

\* the transmit condition without the check that a measurement exists
TransmitsUnchecked(o, lm) == o.awake /\ o.transmit

\* if out.awake and out.transmit and (last_measurement is not None)
Transmits(o, lm) == o.awake /\ o.transmit /\ lm # None

\* the loop running for i in range(steps)
InRangeExclusive(k, n) == k < n

\* the loop runs for i in range(steps + 1)
InRange(k, n) == k < n + 1

\* the arguments of policy.step(now_s, last_measurement, last_tx_s), taken
\* from the locals of simulate; the mutant passes last_tx_value for the
\* measurement
ArgsOfStepTxValue(now_s, lm, ltv, ltx) ==
    [t_s |-> now_s, last_measurement |-> ltv, last_tx_s |-> ltx]

ArgsOfStep(now_s, lm, ltv, ltx) ==
    [t_s |-> now_s, last_measurement |-> lm, last_tx_s |-> ltx]

\* the baseline energy of one tick with the sleep energy accrued at every tick
BaselineAlwaysSleeps(o, dt2) ==
    [idle |-> IF o.awake THEN e_idle_awake(dt2) ELSE 0, sleep |-> e_sleep(dt2)]

\* lines 60-63: idle-awake energy if awake, else sleep energy
Baseline(o, dt2) ==
    IF o.awake
    THEN [idle |-> e_idle_awake(dt2), sleep |-> 0]
    ELSE [idle |-> 0, sleep |-> e_sleep(dt2)]

\* the receiver's value following every sample, sent or not
ReconstructEverySample(did_tx, lm, rv) == lm

\* line 84 and its absence: recon_val changes only with a packet
Reconstruct(did_tx, lm, rv) == IF did_tx THEN lm ELSE rv

\* simulate is entered: seed, reset, the locals, and the step count, which
\* raises ZeroDivisionError when dt_s is 0
Begin ==
    /\ pc \in {"idle", "done", "error"}
    /\ runs < calls
    /\ runs' = runs + 1
    /\ rng_pos' = 0
    /\ mem' = Reset(policy, mem)
    /\ t' = <<>> /\ truth' = <<>> /\ measured' = <<>>
    /\ sent' = <<>> /\ reconstructed' = <<>>
    /\ e_sleep_acc' = 0 /\ e_idle' = 0 /\ e_sense_acc' = 0
    /\ e_cpu_acc' = 0 /\ e_tx_acc' = 0
    /\ last_measurement' = None /\ last_tx_value' = None /\ last_tx_s' = None
    /\ samples_taken' = 0 /\ packets_sent' = 0
    /\ recon_val' = Some(ground_truth(0))
    /\ out' = None /\ i' = 0
    /\ step_log' = <<>>
    /\ IF cfg.dt2 = 0
       THEN pc' = "error" /\ steps' = steps
       ELSE pc' = "loop" /\ steps' = StepCount(cfg)
    /\ UNCHANGED << policy, cfg, calls, rng_stream, results >>

\* one iteration of the loop, lines 52-89
Tick ==
    /\ pc = "loop"
    /\ InRange(i, steps)
    /\ LET now_s == TickTime(i, cfg)
           gt == ground_truth(now_s)
           args == ArgsOfStep(now_s, last_measurement, last_tx_value, last_tx_s)
       IN  \E r \in Step(policy, mem, args.t_s, args.last_measurement, args.last_tx_s) :
           \E noise \in IF ~Samples(r.out) THEN {0}
                        ELSE IF rng_pos < Len(rng_stream)
                             THEN {rng_stream[rng_pos + 1]}
                             ELSE GaussDraws(cfg.noise_std) :
             LET o == r.out
                 mval == IF Samples(o) THEN Some(gt + noise) ELSE None
                 lm == IF Samples(o) THEN mval ELSE last_measurement
                 did_tx == Transmits(o, lm)
                 rv == Reconstruct(did_tx, lm, recon_val)
                 base == Baseline(o, cfg.dt2)
             IN  /\ t' = Append(t, now_s)
                 /\ truth' = Append(truth, gt)
                 /\ out' = Some(o)
                 /\ mem' = r.mem
                 /\ step_log' = Append(step_log, args)
                 /\ e_idle' = e_idle + base.idle
                 /\ e_sleep_acc' = e_sleep_acc + base.sleep
                 /\ IF Samples(o)
                    THEN /\ rng_pos' = rng_pos + 1
                         /\ rng_stream' = IF rng_pos < Len(rng_stream)
                                          THEN rng_stream
                                          ELSE Append(rng_stream, noise)
                         /\ e_sense_acc' = e_sense_acc + e_sense
                         /\ e_cpu_acc' = e_cpu_acc + e_cpu
                         /\ samples_taken' = samples_taken + 1
                    ELSE UNCHANGED << rng_pos, rng_stream, e_sense_acc,
                                      e_cpu_acc, samples_taken >>
                 /\ last_measurement' = lm
                 /\ IF did_tx
                    THEN /\ e_tx_acc' = e_tx_acc + e_tx(cfg.payload_bytes)
                         /\ packets_sent' = packets_sent + 1
                         /\ last_tx_s' = Some(now_s)
                         /\ last_tx_value' = lm
                    ELSE UNCHANGED << e_tx_acc, packets_sent, last_tx_s,
                                      last_tx_value >>
                 /\ recon_val' = rv
                 /\ measured' = Append(measured, mval)
                 /\ sent' = Append(sent, did_tx)
                 /\ reconstructed' = Append(reconstructed, rv)
    /\ i' = i + 1
    /\ UNCHANGED << policy, cfg, calls, runs, pc, steps, results >>

\* lines 91-117: the error metric, the totals and the SimResult
SimResult ==
    [t |-> t, truth |-> truth, measured |-> measured, sent |-> sent,
     reconstructed |-> reconstructed,
     energy_total_mj |-> e_sleep_acc + e_idle + e_sense_acc + e_cpu_acc + e_tx_acc,
     energy_breakdown_mj |->
        [sleep |-> e_sleep_acc, idle_awake |-> e_idle, sensing |-> e_sense_acc,
         cpu |-> e_cpu_acc, tx |-> e_tx_acc],
     samples_taken |-> samples_taken,
     packets_sent |-> packets_sent,
     mae |-> << AbsErrSum(truth, reconstructed), Max(1, Len(truth)) >>]

Return ==
    /\ pc = "loop"
    /\ ~InRange(i, steps)
    /\ pc' = "done"
    /\ results' = Append(results, SimResult)
    /\ UNCHANGED << policy, mem, cfg, calls, runs, steps, i, rng_stream, rng_pos,
                    t, truth, measured, sent, reconstructed,
                    e_sleep_acc, e_idle, e_sense_acc, e_cpu_acc, e_tx_acc,
                    last_measurement, last_tx_value, last_tx_s,
                    samples_taken, packets_sent, recon_val, out, step_log >>

Next == Begin \/ Tick \/ Return

Spec == Init /\ [][Next]_vars

\* ------------------------------------------------------- step, on its own
\* simulate at line 58 of any iteration, with any arguments for policy.step
TickTimes == -2..(2 * MaxEvery)
Measurements == {None} \cup {Some(ground_truth(0) + d) : d \in {0, change_threshold_default}}

InitStep ==
    /\ policy \in BuiltinPolicies
    /\ mem \in (IF policy.kind = "adaptive" THEN Measurements ELSE {None})
    /\ cfg = NodeConfig(2 * MaxEvery, 2, payload_bytes_default, noise_std_default)
    /\ calls = 1 /\ runs = 1
    /\ pc = "step"
    /\ steps = 2 * MaxEvery /\ i = 0
    /\ rng_stream = <<>> /\ rng_pos = 0
    /\ results = <<>>
    /\ \E now_s \in TickTimes : t = <<now_s>> /\ truth = <<ground_truth(now_s)>>
    /\ measured = <<>> /\ sent = <<>> /\ reconstructed = <<>>
    /\ e_sleep_acc = 0 /\ e_idle = 0 /\ e_sense_acc = 0
    /\ e_cpu_acc = 0 /\ e_tx_acc = 0
    /\ last_measurement \in Measurements
    /\ last_tx_value = None
    /\ last_tx_s \in {None} \cup {Some(s) : s \in TickTimes}
    /\ samples_taken = 0 /\ packets_sent = 0
    /\ recon_val = Some(ground_truth(0))
    /\ out = None
    /\ step_log = <<>>

\* out = policy.step(now_s, last_measurement, last_tx_s)
StepCall ==
    /\ pc = "step"
    /\ LET args == ArgsOfStep(t[Len(t)], last_measurement, last_tx_value, last_tx_s)
       IN  \E r \in Step(policy, mem, args.t_s, args.last_measurement, args.last_tx_s) :
             /\ out' = Some(r.out)
             /\ mem' = r.mem
             /\ step_log' = Append(step_log, args)
    /\ pc' = "stepped"
    /\ UNCHANGED << policy, cfg, calls, runs, steps, i, rng_stream, rng_pos,
                    t, truth, measured, sent, reconstructed,
                    e_sleep_acc, e_idle, e_sense_acc, e_cpu_acc, e_tx_acc,
                    last_measurement, last_tx_value, last_tx_s,
                    samples_taken, packets_sent, recon_val, results >>

NextStep == StepCall

SpecStep == InitStep /\ [][NextStep]_vars

\* ------------------------------------------------------- properties
Ticks == 1..Len(sent)
SampleTicks == {t[k] : k \in {j \in Ticks : measured[j] # None}}
SentTicks == {t[k] : k \in {j \in Ticks : sent[j]}}
\* the index of the latest tick before k with a packet sent
LastSentBefore(k) == CHOOSE j \in 1..(k - 1) : sent[j] /\ \A l \in (j + 1)..(k - 1) : ~sent[l]

\* C1: when simulate returns for duration_s > 0 and dt_s > 0, the five
\* sequences of the result all have floor(duration_s / dt_s) + 1 entries
C1_Lengths ==
    (pc = "done" /\ cfg.duration_s > 0 /\ cfg.dt2 > 0) =>
        LET r == results[Len(results)]
            n == ((2 * cfg.duration_s) \div cfg.dt2) + 1
        IN  /\ Len(r.t) = n /\ Len(r.truth) = n /\ Len(r.measured) = n
            /\ Len(r.sent) = n /\ Len(r.reconstructed) = n
C1_Witness ==
    /\ pc = "done" /\ cfg.duration_s = 3 /\ cfg.dt2 = 3
    /\ Len(results[Len(results)].t) = 3

\* C2: under AdaptiveThresholdPolicy the first tick with a sample is a tick
\* with a packet sent
C2_FirstSampleTransmits ==
    policy.kind = "adaptive" =>
        \A k \in Ticks :
            (measured[k] # None /\ \A j \in 1..(k - 1) : measured[j] = None)
                => sent[k]

\* C3: AdaptiveThresholdPolicy(2, 1000, 10) over duration 30, dt 1, samples
\* at exactly ticks 0,2,...,30 and sends at exactly ticks 0,10,20,30
C3_KeepAliveSchedule ==
    (/\ pc = "done"
     /\ policy = AdaptiveThresholdPolicy(2, 100000, 10)
     /\ cfg.duration_s = 30 /\ cfg.dt2 = 2) =>
        /\ SampleTicks = {2 * n : n \in 0..15}
        /\ samples_taken = 16
        /\ SentTicks = {0, 10, 20, 30}
        /\ packets_sent = 4

\* C4: under AdaptiveThresholdPolicy, at a tick with a sample and an earlier
\* packet, a measurement that differs from the value the receiver holds by
\* at least the threshold is sent
C4_ThresholdTransmits ==
    policy.kind = "adaptive" =>
        \A k \in Ticks :
            (/\ measured[k] # None
             /\ \E j \in 1..(k - 1) : sent[j]
             /\ Abs(Val(measured[k]) - Val(reconstructed[k - 1])) >= policy.threshold)
                => sent[k]

\* C5: under AdaptiveThresholdPolicy, at a tick with a sample whose time is
\* at least max_silence_s after the latest earlier packet, a packet is sent
C5_KeepAlive ==
    policy.kind = "adaptive" =>
        \A k \in Ticks :
            (/\ measured[k] # None
             /\ \E j \in 1..(k - 1) : sent[j]
             /\ t[k] - t[LastSentBefore(k)] >= policy.max_silence_s)
                => sent[k]
C5_Witness ==
    /\ policy.kind = "adaptive" /\ policy.threshold = 100000
    /\ policy.max_silence_s = 2
    /\ \E k \in Ticks :
         /\ measured[k] # None
         /\ \E j \in 1..(k - 1) : sent[j]
         /\ t[k] - t[LastSentBefore(k)] = policy.max_silence_s
         /\ sent[k]

\* C6: with duration_s <= 0, dt_s <= 0 or payload_bytes <= 0 simulate fails
\* before the loop: no policy step, no energy, no SimResult
C6_InvalidConfigFailsFast ==
    (cfg.duration_s <= 0 \/ cfg.dt2 <= 0 \/ cfg.payload_bytes <= 0) =>
        /\ pc \in {"idle", "error"}
        /\ out = None
        /\ e_sleep_acc = 0 /\ e_idle = 0 /\ e_sense_acc = 0
        /\ e_cpu_acc = 0 /\ e_tx_acc = 0
        /\ results = <<>>

\* C7: for every policy, a tick with a packet sent has a sample taken at or
\* before it in the same run
C7_SentHasMeasurement ==
    \A k \in Ticks : sent[k] => \E j \in 1..k : measured[j] # None
C7_Witness ==
    /\ policy.kind = "custom"
    /\ \E k \in Ticks :
         /\ sent[k] /\ measured[k] = None
         /\ ~Val(out).take_sample /\ k = Len(sent)

\* C8: with FixedSamplingPolicy(N) and dt 1 the node is awake at every tick
\* and samples and sends exactly at the ticks with t mod N = 0; with N = 5
\* over duration 20 these are the ticks 0,5,10,15,20
C8_FixedSchedule ==
    (policy.kind = "fixed" /\ cfg.dt2 = 2) =>
        /\ out # None => Val(out).awake
        /\ e_sleep_acc = 0
        /\ \A k \in Ticks :
             /\ measured[k] # None <=> t[k] % policy.sample_every_s = 0
             /\ sent[k] <=> t[k] % policy.sample_every_s = 0
        /\ (pc = "done" /\ policy.sample_every_s = 5 /\ cfg.duration_s = 20) =>
             /\ SampleTicks = {0, 5, 10, 15, 20} /\ SentTicks = {0, 5, 10, 15, 20}
             /\ samples_taken = 5 /\ packets_sent = 5
C8_Witness ==
    /\ policy.kind = "fixed" /\ cfg.dt2 = 2
    /\ pc = "done" /\ policy.sample_every_s = 5 /\ cfg.duration_s = 20
    /\ packets_sent = 5

\* C9: with DutyCyclingPolicy(W, A, N) and dt 1 the node is awake at T iff
\* T mod W < A and samples and sends at T iff awake and T mod N = 0, on
\* absolute time; W=10, A=2, N=5 over duration 20 gives ticks 0,10,20
C9_DutySchedule ==
    (policy.kind = "duty" /\ cfg.dt2 = 2) =>
        LET W == policy.wake_every_s
            A == policy.awake_window_s
            N == policy.sample_every_s
        IN  /\ out # None => (Val(out).awake <=> t[Len(t)] % W < A)
            /\ \A k \in Ticks :
                 /\ measured[k] # None <=> (t[k] % W < A /\ t[k] % N = 0)
                 /\ sent[k] <=> (t[k] % W < A /\ t[k] % N = 0)
            /\ (pc = "done" /\ W = 10 /\ A = 2 /\ N = 5 /\ cfg.duration_s = 20) =>
                 SampleTicks = {0, 10, 20} /\ SentTicks = {0, 10, 20}
C9_Witness ==
    /\ policy = DutyCyclingPolicy(3, 2, 2) /\ cfg.dt2 = 2
    /\ Len(t) = 4 /\ t[4] = 3
    /\ Val(out).awake /\ measured[4] = None /\ ~sent[4]

\* C10: the PolicyOutput of step of the three policies, for any tick time,
\* last measurement and last transmission time, has take_sample => awake
\* and transmit => awake, and for AdaptiveThresholdPolicy transmit =>
\* take_sample
C10_OutputShape ==
    pc = "stepped" =>
        LET o == Val(out)
        IN  /\ o.take_sample => o.awake
            /\ o.transmit => o.awake
            /\ policy.kind = "adaptive" => (o.transmit => o.take_sample)
C10_Witness ==
    /\ pc = "stepped" /\ policy.kind = "duty"
    /\ ~Val(out).awake
    /\ t[1] % policy.sample_every_s = 0

\* C11: two runs of simulate in succession on the same policy instance with
\* the same configuration and seed return the same sequences and counts
C11_RerunIdentical ==
    (policy.kind # "custom" /\ Len(results) >= 2) =>
        LET a == results[1]
            b == results[2]
        IN  /\ a.t = b.t /\ a.truth = b.truth /\ a.measured = b.measured
            /\ a.sent = b.sent /\ a.reconstructed = b.reconstructed
            /\ a.samples_taken = b.samples_taken
            /\ a.packets_sent = b.packets_sent
C11_Witness ==
    /\ policy.kind = "adaptive" /\ policy.threshold = 100000
    /\ Len(results) = 2
    /\ results[1].packets_sent >= 1
    /\ results[2].packets_sent >= 1

\* C12: in every run the five energy categories are non-negative and never
\* decrease from tick to tick, and the returned total is the sum of the
\* five breakdown values
C12_EnergyNonNegative ==
    /\ [](/\ e_sleep_acc >= 0 /\ e_idle >= 0 /\ e_sense_acc >= 0
          /\ e_cpu_acc >= 0 /\ e_tx_acc >= 0
          /\ \A n \in 1..Len(results) :
               LET r == results[n]
                   b == r.energy_breakdown_mj
               IN  /\ r.energy_total_mj
                        = b.sleep + b.idle_awake + b.sensing + b.cpu + b.tx
                   /\ r.energy_total_mj >= 0)
    /\ [][Len(t') = Len(t) + 1 =>
            /\ e_sleep_acc' >= e_sleep_acc /\ e_idle' >= e_idle
            /\ e_sense_acc' >= e_sense_acc /\ e_cpu_acc' >= e_cpu_acc
            /\ e_tx_acc' >= e_tx_acc]_vars

\* C13: under AdaptiveThresholdPolicy, after a tick with a packet sent the
\* policy's last-transmitted-value memory is the measurement sent at that
\* tick
C13_MemoryIsSentValue ==
    (policy.kind = "adaptive" /\ Len(sent) >= 1 /\ sent[Len(sent)]) =>
        /\ mem = last_tx_value
        /\ mem = reconstructed[Len(sent)]

\* the index of the latest tick at or before k with a packet sent, and of
\* the latest with a sample taken; 0 when there is none
RECURSIVE LatestSent(_)
LatestSent(k) == IF k = 0 \/ sent[k] THEN k ELSE LatestSent(k - 1)
RECURSIVE LatestSample(_)
LatestSample(k) == IF k = 0 \/ measured[k] # None THEN k ELSE LatestSample(k - 1)
\* a step of the loop: one more tick is recorded
TickTaken == Len(t') = Len(t) + 1

\* C14: reconstructed[i] is the value sent at the latest tick j <= i with a
\* packet (the latest measurement taken at or before j), and the ground
\* truth at time 0 when there is none; it does not change at a tick
\* without a packet
C14_Reconstruction ==
    \A k \in Ticks :
        LET j == LatestSent(k)
        IN  /\ IF j = 0
               THEN reconstructed[k] = Some(ground_truth(0))
               ELSE /\ LatestSample(j) # 0
                    /\ reconstructed[k] = measured[LatestSample(j)]
            /\ ~sent[k] =>
                 reconstructed[k] = IF k = 1 THEN Some(ground_truth(0))
                                    ELSE reconstructed[k - 1]
C14_Witness ==
    \E k \in Ticks :
        /\ \E j \in 1..(k - 1) : sent[j]
        /\ measured[k] # None /\ ~sent[k]
        /\ reconstructed[k] # measured[k]
        /\ reconstructed[k] # Some(ground_truth(0))

\* C15: every tick accrues exactly one of the baseline energies, idle-awake
\* energy for dt_s if the policy output is awake and sleep energy for dt_s
\* otherwise; after k ticks the idle and sleep accruals number k together
C15_OneBaseline ==
    /\ [](\E a \in 0..Len(t) :
            /\ e_idle = a * e_idle_awake(cfg.dt2)
            /\ e_sleep_acc = (Len(t) - a) * e_sleep(cfg.dt2))
    /\ [][TickTaken =>
            IF Val(out').awake
            THEN /\ e_idle' = e_idle + e_idle_awake(cfg.dt2)
                 /\ e_sleep_acc' = e_sleep_acc
            ELSE /\ e_sleep_acc' = e_sleep_acc + e_sleep(cfg.dt2)
                 /\ e_idle' = e_idle]_vars
C15_Witness ==
    /\ e_idle > 0 /\ e_sleep_acc > 0
    /\ Len(t) >= 2
    /\ Val(out).awake /\ measured[Len(t)] # None /\ sent[Len(t)]

\* C16: a tick whose policy output has awake false, whatever its
\* take_sample and transmit, takes no sample and sends no packet and leaves
\* the sensing, CPU and tx energy, the counters, the last measurement, the
\* last transmission time and the reconstructed value unchanged
C16_AsleepDoesNothing ==
    [][(TickTaken /\ ~Val(out').awake) =>
          /\ UNCHANGED << e_sense_acc, e_cpu_acc, e_tx_acc, samples_taken,
                          packets_sent, last_measurement, last_tx_s,
                          last_tx_value, recon_val >>
          /\ measured'[Len(measured')] = None
          /\ ~sent'[Len(sent')]
          /\ reconstructed'[Len(reconstructed')] = recon_val]_vars
C16_Witness ==
    /\ out = Some(PolicyOutput(FALSE, TRUE, TRUE))
    /\ last_measurement # None
    /\ measured[Len(measured)] = None /\ ~sent[Len(sent)]

\* C17: policy.step is called once per tick, before the tick's sampling and
\* transmission: it receives the measurement of the latest strictly earlier
\* tick with a sample and the time of the latest strictly earlier tick with
\* a packet sent, each absent when there is none
C17_StepArguments ==
    pc \in {"loop", "done"} =>
        /\ Len(step_log) = Len(t)
        /\ \A k \in 1..Len(step_log) :
             LET a == step_log[k]
                 m == LatestSample(k - 1)
                 j == LatestSent(k - 1)
             IN  /\ a.t_s = t[k]
                 /\ a.last_measurement = IF m = 0 THEN None ELSE measured[m]
                 /\ a.last_tx_s = IF j = 0 THEN None ELSE Some(t[j])
C17_Witness ==
    \E k \in 1..Len(step_log) :
        /\ measured[k] # None /\ sent[k]
        /\ step_log[k].last_measurement # None
        /\ step_log[k].last_measurement # measured[k]
        /\ step_log[k].last_measurement # last_tx_value
        /\ step_log[k].last_tx_s # None
        /\ Val(step_log[k].last_tx_s) < t[k] - 1

\* C18: under the three built-in policies a tick with a packet sent has a
\* measurement taken at that same tick, and it is the value reconstructed
C18_SentIsFresh ==
    policy.kind \in {"fixed", "duty", "adaptive"} =>
        \A k \in Ticks :
            sent[k] => (measured[k] # None /\ reconstructed[k] = measured[k])
C18_Witness ==
    /\ policy.kind = "adaptive" /\ policy.base_every_s = 2
    /\ \E k \in Ticks :
         /\ sent[k] /\ measured[k] # None
         /\ \E j \in 1..(k - 1) : measured[j] # None /\ measured[j] # measured[k]

\* C19: under AdaptiveThresholdPolicy(B, M) with dt 1, a packet sent at
\* time s is followed by another no later than s + M + B - 1, when the run
\* lasts that long
C19_BoundedSilence ==
    (policy.kind = "adaptive" /\ cfg.dt2 = 2) =>
        LET bound == policy.max_silence_s + policy.base_every_s - 1
        IN  \A k \in Ticks :
                (sent[k] /\ t[k] + bound <= t[Len(t)]) =>
                    \E j \in (k + 1)..Len(t) : sent[j] /\ t[j] <= t[k] + bound
C19_Witness ==
    /\ policy = AdaptiveThresholdPolicy(1, 100000, 2) /\ cfg.dt2 = 2
    /\ Len(t) = 4
    /\ sent[2] /\ ~sent[3] /\ sent[4]

\* C20: after every tick samples_taken is the number of measurements taken
\* and packets_sent the number of packets sent; under the three built-in
\* policies packets_sent <= samples_taken
C20_Counters ==
    /\ samples_taken = Cardinality({k \in Ticks : measured[k] # None})
    /\ packets_sent = Cardinality({k \in Ticks : sent[k]})
    /\ policy.kind \in {"fixed", "duty", "adaptive"} => packets_sent <= samples_taken
C20_Witness ==
    /\ policy.kind = "adaptive"
    /\ packets_sent >= 2 /\ packets_sent < samples_taken

====
